---- MODULE Spec2Model ----
(***************************************************************************)
(* A model of sendemail.py: the per-recipient pipeline                      *)
(* (format_and_send_email driven by process_csv_file), the send-time        *)
(* predicate should_send_now and the template engine substitute_text.       *)
(* Strings are TLA+ strings, taken apart with Len, SubSeq and \o.           *)
(***************************************************************************)
EXTENDS Integers, Sequences, FiniteSets, TLC

VARIABLES
    clock,        \* the wall clock: whole hours since a Monday 00:00 UTC
    \* ---- the substitution engine, applied to drawn inputs
    subText,      \* the text handed to substitute_text
    subKeys,      \* the keyword mapping handed to substitute_text
    subOut,       \* its outcome: status "pending", "raised" or "returned"
    \* ---- the send-time predicate, applied to drawn inputs
    ssnKeywords,  \* the keywords handed to should_send_now
    ssnReads,     \* the instants at which the evaluation read the clock
    ssnOut,       \* its outcome: status "pending", "raised" or "returned"
    \* ---- one run of maintest
    testMode,     \* flags['test']: the action is test_emails_to_csv_people
    smtpkw,       \* the SMTP information read by get_smtpinfo
    template,     \* the file smtpkw['plainbody']: its subject line and its body
    mtime,        \* the instant the template file was last modified
    fileLen,      \* lines the CSV file holds after its header line
    lineno,       \* lines of the CSV file read after the header line
    allemails,    \* the module's dict allemails
    allnames,     \* the module's dict allnames
    sent,         \* the calls of send_an_email made so far, in order
    run,          \* process_csv_file: "running", "returned" or "raised"
    last,         \* what the latest line read was and what became of it
    earlier       \* the (email, name) pairs the duplicate check accepted on
                  \* the lines before the latest one

runVars == <<testMode, smtpkw, template, mtime, fileLen, lineno, allemails,
             allnames, sent, run, last, earlier>>
subVars == <<subText, subKeys, subOut>>
ssnVars == <<ssnKeywords, ssnReads, ssnOut>>

-----------------------------------------------------------------------------
(* Strings *)

Char(s, i) == SubSeq(s, i, i)

\* KWDELIM = '@@'
KWDELIM == "@@"

\* str.find(sub) != -1
RECURSIVE ContainsFrom(_, _, _)
ContainsFrom(s, sub, i) ==
    IF i + Len(sub) - 1 > Len(s) THEN FALSE
    ELSE IF SubSeq(s, i, i + Len(sub) - 1) = sub THEN TRUE
    ELSE ContainsFrom(s, sub, i + 1)

Contains(s, sub) == ContainsFrom(s, sub, 1)

\* str.replace(old, new): every leftmost non-overlapping occurrence, scanning
\* left to right; old is never empty here.
RECURSIVE ReplaceFrom(_, _, _, _)
ReplaceFrom(s, old, new, i) ==
    IF i > Len(s) THEN ""
    ELSE IF i + Len(old) - 1 <= Len(s) /\ SubSeq(s, i, i + Len(old) - 1) = old
         THEN new \o ReplaceFrom(s, old, new, i + Len(old))
         ELSE Char(s, i) \o ReplaceFrom(s, old, new, i + 1)

Replace(s, old, new) == ReplaceFrom(s, old, new, 1)

UpperCase == "ABCDEFGHIJKLMNOPQRSTUVWXYZ"
LowerCase == "abcdefghijklmnopqrstuvwxyz"

LowerChar(c) ==
    IF \E i \in 1..Len(UpperCase) : Char(UpperCase, i) = c
    THEN Char(LowerCase, CHOOSE i \in 1..Len(UpperCase) : Char(UpperCase, i) = c)
    ELSE c

\* str.lower()
RECURSIVE Lower(_)
Lower(s) == IF s = "" THEN "" ELSE LowerChar(Char(s, 1)) \o Lower(SubSeq(s, 2, Len(s)))

Digits == "0123456789"

DigitValue(c) == (CHOOSE i \in 1..Len(Digits) : Char(Digits, i) = c) - 1

\* int(s) of a string of decimal digits
\* str(n) of a natural number
RECURSIVE ToStr(_)
ToStr(n) ==
    IF n < Len(Digits) THEN Char(Digits, n + 1)
    ELSE ToStr(n \div Len(Digits)) \o Char(Digits, (n % Len(Digits)) + 1)

\* str.strip(), of blanks
RECURSIVE Strip(_)
Strip(s) ==
    IF s = "" THEN ""
    ELSE IF Char(s, 1) = " " THEN Strip(SubSeq(s, 2, Len(s)))
    ELSE IF Char(s, Len(s)) = " " THEN Strip(SubSeq(s, 1, Len(s) - 1))
    ELSE s

\* The first index >= i of s holding the character c, or Len(s) + 1.
RECURSIVE IndexFrom(_, _, _)
IndexFrom(s, c, i) ==
    IF i > Len(s) THEN i
    ELSE IF Char(s, i) = c THEN i
    ELSE IndexFrom(s, c, i + 1)

\* str.split(sep), sep one character
RECURSIVE Split(_, _)
Split(s, sep) ==
    LET j == IndexFrom(s, sep, 1)
    IN  IF j > Len(s) THEN <<s>>
        ELSE <<SubSeq(s, 1, j - 1)>> \o Split(SubSeq(s, j + 1, Len(s)), sep)

\* str.startswith(prefix)
StartsWith(s, prefix) ==
    Len(s) >= Len(prefix) /\ SubSeq(s, 1, Len(prefix)) = prefix

\* dict[k] = v
Put(d, k, v) == [x \in DOMAIN d \cup {k} |-> IF x = k THEN v ELSE d[x]]

RECURSIVE ParseInt(_)
ParseInt(s) ==
    IF Len(s) = 1 THEN DigitValue(s)
    ELSE ParseInt(SubSeq(s, 1, Len(s) - 1)) * Len(Digits) + DigitValue(Char(s, Len(s)))

-----------------------------------------------------------------------------
(* find_keywords and substitute_text *)

\* The first index >= i holding '@', or Len(text) + 1.
RECURSIVE NextDelimChar(_, _)
NextDelimChar(text, i) ==
    IF i > Len(text) THEN i
    ELSE IF Char(text, i) = "@" THEN i
    ELSE NextDelimChar(text, i + 1)

\* re.compile('@@([^@@]+)@@').findall(text) from index i on: the captured names
\* of the leftmost non-overlapping matches, in text order, repeats included.
RECURSIVE FindAllFrom(_, _)
FindAllFrom(text, i) ==
    IF i + 4 > Len(text) THEN <<>>
    ELSE IF SubSeq(text, i, i + 1) = KWDELIM /\ Char(text, i + 2) # "@"
         THEN LET j == NextDelimChar(text, i + 3)
              IN  IF j + 1 <= Len(text) /\ SubSeq(text, j, j + 1) = KWDELIM
                  THEN <<SubSeq(text, i + 2, j - 1)>> \o FindAllFrom(text, j + 2)
                  ELSE FindAllFrom(text, i + 1)
         ELSE FindAllFrom(text, i + 1)

find_keywords(text) == FindAllFrom(text, 1)

\* The loop of substitute_text over keywords_in_text[n..]: raises at the first
\* keyword that keys does not bind, else replaces it in outtext and goes on.
RECURSIVE SubstituteLoop(_, _, _, _)
SubstituteLoop(outtext, kws, keys, n) ==
    IF n > Len(kws) THEN [status |-> "returned", text |-> outtext]
    ELSE IF kws[n] \notin DOMAIN keys
         THEN [status |-> "raised", keyword |-> kws[n]]
         ELSE SubstituteLoop(
                  Replace(outtext, KWDELIM \o kws[n] \o KWDELIM, keys[kws[n]]),
                  kws, keys, n + 1)

\* substitute_text leaving in place the keywords that keys does not bind.
substitute_text_SkipUnbound(text, keys) ==
    SubstituteLoop(text, SelectSeq(find_keywords(text), LAMBDA kw : kw \in DOMAIN keys), keys, 1)

substitute_text(text, keys) ==
    SubstituteLoop(text, find_keywords(text), keys, 1)

-----------------------------------------------------------------------------
(* The substitution engine on drawn inputs *)

MaxLen == 6       \* texts of up to MaxLen characters over Alphabet
MaxParts == 4     \* and texts of up to MaxParts pieces of Pieces

Alphabet == {"@", "a", "b"}
Pieces == {"@@a@@", "@@b@@", "a", "b", "@@"}
KeyNames == {"a", "b"}
KeyValues == {"", "b", "@@b@@"}

RECURSIVE Concats(_, _)
Concats(parts, n) ==
    IF n = 0 THEN {""}
    ELSE LET shorter == Concats(parts, n - 1)
         IN  shorter \cup {s \o p : s \in shorter, p \in parts}

Texts == Concats(Alphabet, MaxLen) \cup Concats(Pieces, MaxParts)

KeyMappings == UNION {[D -> KeyValues] : D \in SUBSET KeyNames}

SubstInit ==
    /\ subText \in Texts
    /\ subKeys \in KeyMappings
    /\ subOut = [status |-> "pending"]

SubstituteText ==
    /\ subOut.status = "pending"
    /\ subOut' = substitute_text(subText, subKeys)
    /\ UNCHANGED <<subText, subKeys>>

SubstIdle ==
    /\ subText = ""
    /\ subKeys = <<>>
    /\ subOut = [status |-> "idle"]

-----------------------------------------------------------------------------
(* should_send_now *)

WEEKDAYS == <<"monday", "tuesday", "wednesday", "thursday",
              "friday", "saturday", "sunday">>

\* pytz.timezone(name): the zones the model knows, with their offset from UTC
\* in hours; any other name raises UnknownTimeZoneError.
KnownZones == {"UTC", "Japan", "Etc/GMT+5"}

UtcOffset(zone) ==
    CASE zone = "UTC" -> 0
      [] zone = "Japan" -> 9
      [] zone = "Etc/GMT+5" -> 0 - 5

\* datetime.now(tz) at clock instant t (hours since a Monday 00:00 UTC; the week
\* before is added so that a negative offset stays in the naturals).
LocalHours(t, zone) == t + UtcOffset(zone) + 24 * Len(WEEKDAYS)

\* datetime.now(tz).hour
HourOf(t, zone) == LocalHours(t, zone) % 24

\* datetime.now(tz).date().weekday(): Monday is 0
WeekdayOf(t, zone) == (LocalHours(t, zone) \div 24) % Len(WEEKDAYS)

NoDay == 0 - 1

\* DayNumber comparing sendday as it is written.
DayNumber_CaseSensitive(sendday) ==
    IF \E i \in 1..Len(WEEKDAYS) : sendday = WEEKDAYS[i]
    THEN (CHOOSE i \in 1..Len(WEEKDAYS) : sendday = WEEKDAYS[i]) - 1
    ELSE NoDay

\* The loop of lines 167-171: the index of sendday in WEEKDAYS, compared
\* lower-cased; NoDay stands for None.
DayNumber(sendday) ==
    IF \E i \in 1..Len(WEEKDAYS) : Lower(sendday) = WEEKDAYS[i]
    THEN (CHOOSE i \in 1..Len(WEEKDAYS) : Lower(sendday) = WEEKDAYS[i]) - 1
    ELSE NoDay

\* should_send_now answering False for a sendday it does not know.
should_send_now_NoRaise(keywords, tHour, tDay) ==
    IF "sendhour" \notin DOMAIN keywords
    THEN [status |-> "returned", value |-> TRUE]
    ELSE IF keywords["timezone"] \notin KnownZones
    THEN [status |-> "raised", error |-> "UnknownTimeZoneError"]
    ELSE IF HourOf(tHour, keywords["timezone"]) # ParseInt(keywords["sendhour"])
    THEN [status |-> "returned", value |-> FALSE]
    ELSE IF "sendday" \notin DOMAIN keywords
    THEN [status |-> "returned", value |-> TRUE]
    ELSE [status |-> "returned",
          value |-> DayNumber(keywords["sendday"])
                        = WeekdayOf(tDay, keywords["timezone"])]

\* should_send_now(keywords, flags), its two clock reads made at the instants
\* tHour (line 156) and tDay (line 174).
should_send_now(keywords, tHour, tDay) ==
    IF "sendhour" \notin DOMAIN keywords
    THEN [status |-> "returned", value |-> TRUE]
    ELSE IF keywords["timezone"] \notin KnownZones
    THEN [status |-> "raised", error |-> "UnknownTimeZoneError"]
    ELSE IF HourOf(tHour, keywords["timezone"]) # ParseInt(keywords["sendhour"])
    THEN [status |-> "returned", value |-> FALSE]
    ELSE IF "sendday" \notin DOMAIN keywords
    THEN [status |-> "returned", value |-> TRUE]
    ELSE IF DayNumber(keywords["sendday"]) = NoDay
    THEN [status |-> "raised", error |-> "Illegal sendday"]
    ELSE [status |-> "returned",
          value |-> DayNumber(keywords["sendday"])
                        = WeekdayOf(tDay, keywords["timezone"])]

\* Whether an evaluation with these keywords gets to the clock read of line 174.
ReadsWeekday(keywords, tHour) ==
    /\ "sendhour" \in DOMAIN keywords
    /\ keywords["timezone"] \in KnownZones
    /\ HourOf(tHour, keywords["timezone"]) = ParseInt(keywords["sendhour"])
    /\ "sendday" \in DOMAIN keywords
    /\ DayNumber(keywords["sendday"]) # NoDay

-----------------------------------------------------------------------------
(* The send-time predicate on drawn inputs *)

MaxAdvance == 1   \* hours the clock may advance between two reads of one call

\* Each with the number it is meant to denote.
SendHours == {<<"0", 0>>, <<"07", 7>>, <<"23", 23>>}
SendDays == {<<"Monday", 0>>, <<"tuesday", 1>>, <<"SUNDAY", 6>>,
             <<"Funday", NoDay>>, <<"Mon", NoDay>>}

WeekClock == 0..(24 * Len(WEEKDAYS) - 1)

SsnKeywordSets ==
    LET base == {[x \in {"timezone"} |-> z] : z \in KnownZones}
        hour == base \cup {Put(b, "sendhour", h[1]) : b \in base, h \in SendHours}
    IN  hour \cup {Put(b, "sendday", d[1]) : b \in hour, d \in SendDays}

SchedInit ==
    /\ ssnKeywords \in SsnKeywordSets
    /\ clock \in WeekClock
    /\ ssnReads = [hour |-> 0, day |-> 0]
    /\ ssnOut = [status |-> "pending"]

ShouldSendNow ==
    /\ ssnOut.status = "pending"
    /\ \E adv \in 0..MaxAdvance :
         LET tHour == clock
             tDay == IF ReadsWeekday(ssnKeywords, tHour) THEN tHour + adv ELSE tHour
         IN  /\ ssnOut' = should_send_now(ssnKeywords, tHour, tDay)
             /\ ssnReads' = [hour |-> tHour, day |-> tDay]
             /\ clock' = tDay
    /\ UNCHANGED ssnKeywords

SchedIdle ==
    /\ ssnKeywords = <<>>
    /\ ssnReads = [hour |-> 0, day |-> 0]
    /\ ssnOut = [status |-> "idle"]

-----------------------------------------------------------------------------

(* format_and_send_email *)

\* DuplicateGuard looking the address and the name up as they are written.
DuplicateGuard_CaseSensitive(dest, name, emails, names) ==
    IF dest \in DOMAIN emails
    THEN [outcome |-> "DuplicateEmail", allemails |-> emails, allnames |-> names]
    ELSE IF name \in DOMAIN names
    THEN [outcome |-> "DuplicateName",
          allemails |-> Put(emails, Lower(dest), Lower(name)),
          allnames |-> names]
    ELSE [outcome |-> "Accepted",
          allemails |-> Put(emails, Lower(dest), Lower(name)),
          allnames |-> Put(names, Lower(name), Lower(dest))]

\* Lines 92-99: the two duplicate checks and the two registrations.
DuplicateGuard(dest, name, emails, names) ==
    IF Lower(dest) \in DOMAIN emails
    THEN [outcome |-> "DuplicateEmail", allemails |-> emails, allnames |-> names]
    ELSE IF Lower(name) \in DOMAIN names
    THEN [outcome |-> "DuplicateName",
          allemails |-> Put(emails, Lower(dest), Lower(name)),
          allnames |-> names]
    ELSE [outcome |-> "Accepted",
          allemails |-> Put(emails, Lower(dest), Lower(name)),
          allnames |-> Put(names, Lower(name), Lower(dest))]

\* Lines 100-104: firstname is the name up to its first blank, unless given.
WithFirstname(keywords) ==
    IF "firstname" \in DOMAIN keywords THEN keywords
    ELSE Put(keywords, "firstname", Split(keywords["name"], " ")[1])

\* Lines 105-108
ToAddr(name, dest) ==
    IF Contains(name, "'")
    THEN "\"" \o name \o "\" <" \o dest \o ">\""
    ELSE name \o " <" \o dest \o ">"

ReservedKeys == {"login", "password", "plainbody", "htmlbody"}

\* Lines 109-112: the keys of smtpinfo the keywords do not have yet.
MergeSmtpinfo(keywords, smtpinfo) ==
    [k \in DOMAIN keywords \cup (DOMAIN smtpinfo \ ReservedKeys) |->
        IF k \in DOMAIN keywords THEN keywords[k] ELSE smtpinfo[k]]

\* strftime of datetime.now(tz) at instant t: the day is counted from the
\* clock's Monday, and no minutes or seconds pass within the clock's hour.
DayString(t, zone) == "day " \o ToStr(LocalHours(t, zone) \div 24)

DateString(t, zone) ==
    DayString(t, zone) \o " " \o ToStr(HourOf(t, zone)) \o ":00:00 "
        \o (IF UtcOffset(zone) < 0 THEN "-" \o ToStr(0 - UtcOffset(zone))
            ELSE "+" \o ToStr(UtcOffset(zone)))

YearString(t, zone) == "year " \o ToStr(LocalHours(t, zone) \div (24 * 366))

\* Lines 117-121
WithDates(keywords, t) ==
    LET zone == keywords["timezone"]
        dated == Put(keywords, "Date", DateString(t, zone))
        today == IF "Today" \in DOMAIN dated THEN dated
                 ELSE Put(dated, "Today", DayString(t, zone))
    IN  IF "Year" \in DOMAIN today THEN today
        ELSE Put(today, "Year", YearString(t, zone))

\* Line 227: the tuple of header names; 'User-Agent' 'Importance' has no comma
\* between its two literals, which Python joins into one string.
HEADERS == <<"Organization", "Message-ID", "Date", "User-Agent" \o "Importance">>

\* send_an_email, lines 223-230 and the call itself: the message built and
\* whether the SMTP session delivered it (else it raises).
send_an_email(toaddr, subject, smtpinfo, msgbody, keywords, delivered) ==
    [To |-> toaddr,
     From |-> smtpinfo["from"],
     Subject |-> subject,
     body |-> msgbody,
     headers |-> [h \in {HEADERS[i] : i \in 1..Len(HEADERS)} \cap DOMAIN smtpinfo
                     |-> smtpinfo[h]],
     email |-> keywords["email"],
     name |-> keywords["name"],
     delivered |-> delivered]

\* What a call did: how it ended, the calls of substitute_text it made, the
\* calls of send_an_email it made, and the clock when it ended.
Outcome(what, raised, nsubst, calls, t) ==
    [outcome |-> what, raised |-> raised, nsubst |-> nsubst, sent |-> calls,
     clock |-> t]

\* SendIfDue sending whatever should_send_now returns.
SendIfDue_Ungated(text, subject, smtpinfo, keywords, toaddr, nsubst, t, adv, delivered) ==
    LET tDay == IF ReadsWeekday(keywords, t) THEN t + adv ELSE t
        due == should_send_now(keywords, t, tDay)
        outtext == substitute_text(text, keywords)
        outsubject == substitute_text(subject, keywords)
    IN  IF due.status = "raised"
        THEN Outcome(due.error, TRUE, nsubst, <<>>, tDay)
        ELSE IF outtext.status = "raised"
        THEN Outcome("Undefined keyword", TRUE, nsubst + 1, <<>>, tDay)
        ELSE IF outsubject.status = "raised"
        THEN Outcome("Undefined keyword", TRUE, nsubst + 2, <<>>, tDay)
        ELSE Outcome(IF delivered THEN "Sent" ELSE "SMTPException", ~delivered,
                     nsubst + 2,
                     <<send_an_email(toaddr, outsubject.text, smtpinfo,
                                     outtext.text, keywords, delivered)>>,
                     tDay)

\* Lines 132-135: the gate and, behind it, the substitutions and the send.
\* nsubst counts the calls of substitute_text made before.
SendIfDue(text, subject, smtpinfo, keywords, toaddr, nsubst, t, adv, delivered) ==
    LET tDay == IF ReadsWeekday(keywords, t) THEN t + adv ELSE t
        due == should_send_now(keywords, t, tDay)
        outtext == substitute_text(text, keywords)
        outsubject == substitute_text(subject, keywords)
    IN  IF due.status = "raised"
        THEN Outcome(due.error, TRUE, nsubst, <<>>, tDay)
        ELSE IF ~due.value
        THEN Outcome("Deferred", FALSE, nsubst, <<>>, tDay)
        ELSE IF outtext.status = "raised"
        THEN Outcome("Undefined keyword", TRUE, nsubst + 1, <<>>, tDay)
        ELSE IF outsubject.status = "raised"
        THEN Outcome("Undefined keyword", TRUE, nsubst + 2, <<>>, tDay)
        ELSE Outcome(IF delivered THEN "Sent" ELSE "SMTPException", ~delivered,
                     nsubst + 2,
                     <<send_an_email(toaddr, outsubject.text, smtpinfo,
                                     outtext.text, keywords, delivered)>>,
                     tDay)

\* Lines 122-135
Dispatch(text, subject, smtpinfo, keywords, toaddr, dontsend, t, adv, delivered) ==
    IF ~dontsend
    THEN SendIfDue(text, subject, smtpinfo, keywords, toaddr, 0, t, adv, delivered)
    ELSE IF substitute_text(text, keywords).status = "raised"
    THEN Outcome("Undefined keyword", TRUE, 1, <<>>, t)
    ELSE IF substitute_text(subject, keywords).status = "raised"
    THEN Outcome("Undefined keyword", TRUE, 2, <<>>, t)
    ELSE SendIfDue(text, subject, smtpinfo, keywords, toaddr, 2, t, adv, delivered)

\* format_and_send_email reporting a duplicate and going on, without the
\* return of lines 94 and 98.
format_and_send_email_NoReturn(text, subject, smtpinfo, keys, dontsend, emails, names, t, adv, delivered) ==
    LET dest == keys["email"]
        name == keys["name"]
        guard == DuplicateGuard(dest, name, emails, names)
        merged == MergeSmtpinfo(WithFirstname(keys), smtpinfo)
        checked == [guard |-> guard.outcome, allemails |-> guard.allemails,
                    allnames |-> guard.allnames]
    IN  IF ~Contains(dest, "@")
        THEN Outcome("Email address is invalid", TRUE, 0, <<>>, t)
                 @@ checked @@ [keywords |-> merged]
        ELSE IF merged["timezone"] \notin KnownZones
        THEN Outcome("UnknownTimeZoneError", TRUE, 0, <<>>, t)
                 @@ checked @@ [keywords |-> merged]
        ELSE Dispatch(text, Strip(subject), smtpinfo, WithDates(merged, t),
                      ToAddr(name, dest), dontsend, t, adv, delivered)
                 @@ checked @@ [keywords |-> WithDates(merged, t)]

\* format_and_send_email(text, subject, smtpinfo, keys, flags) with the two
\* dicts as they are at the call, the clock at t, and what the environment
\* decides: adv, the hours that pass between the clock reads of
\* should_send_now, and delivered, whether the SMTP session succeeds.
\* Besides what Outcome records: how the duplicate check ended, the two dicts
\* and the keywords as the call leaves them.
format_and_send_email(text, subject, smtpinfo, keys, dontsend, emails, names, t, adv, delivered) ==
    LET dest == keys["email"]
        name == keys["name"]
        guard == DuplicateGuard(dest, name, emails, names)
        merged == MergeSmtpinfo(WithFirstname(keys), smtpinfo)
        checked == [guard |-> guard.outcome, allemails |-> guard.allemails,
                    allnames |-> guard.allnames]
    IN  IF guard.outcome # "Accepted"
        THEN Outcome(guard.outcome, FALSE, 0, <<>>, t)
                 @@ checked @@ [keywords |-> keys]
        ELSE IF ~Contains(dest, "@")
        THEN Outcome("Email address is invalid", TRUE, 0, <<>>, t)
                 @@ checked @@ [keywords |-> merged]
        ELSE IF merged["timezone"] \notin KnownZones
        THEN Outcome("UnknownTimeZoneError", TRUE, 0, <<>>, t)
                 @@ checked @@ [keywords |-> merged]
        ELSE Dispatch(text, Strip(subject), smtpinfo, WithDates(merged, t),
                      ToAddr(name, dest), dontsend, t, adv, delivered)
                 @@ checked @@ [keywords |-> WithDates(merged, t)]

-----------------------------------------------------------------------------
(* The two actions of process_csv_file *)

\* IsStale with the age of the file taken in days, not in hours.
IsStale_InDays(smtpinfo, t, modified) ==
    /\ "maxagehours" \in DOMAIN smtpinfo
    /\ (t - modified) \div 24 > ParseInt(smtpinfo["maxagehours"])

\* Lines 298-303: the template file is older than maxagehours allows.
IsStale(smtpinfo, t, modified) ==
    /\ "maxagehours" \in DOMAIN smtpinfo
    /\ t - modified > ParseInt(smtpinfo["maxagehours"])

send_emails_to_csv_people(ourkw, smtpinfo, tpl, modified, emails, names, t, adv, delivered) ==
    IF IsStale(smtpinfo, t, modified)
    THEN Outcome("Message is too old", TRUE, 0, <<>>, t)
             @@ [guard |-> "none", allemails |-> emails, allnames |-> names,
                 keywords |-> ourkw]
    ELSE format_and_send_email(tpl.body, tpl.subject, smtpinfo, ourkw, FALSE,
                               emails, names, t, adv, delivered)

test_emails_to_csv_people(ourkw, smtpinfo, tpl, modified, emails, names, t, adv, delivered) ==
    format_and_send_email(tpl.body, tpl.subject, smtpinfo, ourkw, TRUE,
                          emails, names, t, adv, delivered)

-----------------------------------------------------------------------------
(* process_csv_file *)

\* Lines 287-288
ZipRow(keywords, linewords) ==
    [k \in {keywords[j] : j \in 1..Len(keywords)} |->
        linewords[CHOOSE j \in 1..Len(keywords) :
                     /\ keywords[j] = k
                     /\ \A i \in (j + 1)..Len(keywords) : keywords[i] # k]]

\* process_row counting the fields of the line after it has called the action.
process_row_CheckAfter(line, keywords, test, smtpinfo, tpl, modified, emails, names, t, adv, delivered) ==
    LET linewords == Split(Strip(line), ",")
        done == IF test
                THEN test_emails_to_csv_people(ZipRow(keywords, linewords),
                         smtpinfo, tpl, modified, emails, names, t, adv, delivered)
                ELSE send_emails_to_csv_people(ZipRow(keywords, linewords),
                         smtpinfo, tpl, modified, emails, names, t, adv, delivered)
    IN  IF Len(linewords) < Len(keywords)
        THEN Outcome("Line has the wrong number of elements", TRUE, 0, <<>>, t)
                 @@ [guard |-> "none", allemails |-> emails, allnames |-> names,
                     keywords |-> <<>>]
        ELSE IF Len(linewords) > Len(keywords) /\ ~done.raised
        THEN [done EXCEPT !.outcome = "Line has the wrong number of elements",
                          !.raised = TRUE]
        ELSE done

\* Lines 283-289: one data line, split, checked against the header and
\* handed to the action of the run.
process_row(line, keywords, test, smtpinfo, tpl, modified, emails, names, t, adv, delivered) ==
    LET linewords == Split(Strip(line), ",")
    IN  IF Len(linewords) # Len(keywords)
        THEN Outcome("Line has the wrong number of elements", TRUE, 0, <<>>, t)
                 @@ [guard |-> "none", allemails |-> emails, allnames |-> names,
                     keywords |-> <<>>]
        ELSE IF test
        THEN test_emails_to_csv_people(ZipRow(keywords, linewords), smtpinfo, tpl,
                                       modified, emails, names, t, adv, delivered)
        ELSE send_emails_to_csv_people(ZipRow(keywords, linewords), smtpinfo, tpl,
                                       modified, emails, names, t, adv, delivered)

-----------------------------------------------------------------------------
(* One run *)

MaxLines == 2        \* lines of the CSV file after its header, any configuration
MaxRecipients == 3   \* the same, in the runs of RowsSpec
MaxTicks == 1        \* hours that pass during the run, between two lines

ClockStart == 24 - 2   \* the run starts on the Monday at 22:00 UTC

\* initline.strip().split(','), line 275
HeaderLine == "email,name,timezone"
Header == Split(Strip(HeaderLine), ",")

Emails == {"a@x", "A@X", "b@x"}
Names == {"Al B", "AL B", "Cy"}

\* Every pair of these addresses and names in a known zone, a row whose
\* address has no '@', a row whose zone pytz does not know, and rows of two
\* and of four fields.
DataLines ==
    {e \o "," \o n \o ",UTC" : e \in Emails, n \in Names}
        \cup {"bob,Cy,UTC", "b@x,Cy,Mars", "b@x,Cy", "b@x,Cy,UTC,x"}
CommentLines == {"# a@x,Al B,UTC"}
BlankLines == {"", "  "}

BaseSmtpinfo ==
    [k \in {"from", "gateway", "login", "password", "plainbody",
            "destinationcsv", "Organization", "User-Agent"} |->
        CASE k = "from" -> "Jacob <j@x>"
          [] k = "gateway" -> "smtp.x"
          [] k = "login" -> "j@x"
          [] k = "password" -> "secret"
          [] k = "plainbody" -> "email.txt"
          [] k = "destinationcsv" -> "people.csv"
          [] k = "Organization" -> "ScroogeWorks"
          [] k = "User-Agent" -> "sendemail"]

Smtpinfos ==
    LET aged == {BaseSmtpinfo, Put(BaseSmtpinfo, "maxagehours", "1")}
        hour == aged \cup {Put(c, "sendhour", "23") : c \in aged}
    IN  hour \cup {Put(c, "sendday", d) : c \in hour \ aged,
                                         d \in {"Monday", "Funday"}}

Templates ==
    {[subject |-> "Hi @@firstname@@ ", body |-> "@@name@@ of @@Organization@@"],
     [subject |-> "Hi", body |-> "Dear @@nickname@@"]}

NoLine == [kind |-> "none"]

RunStart ==
    /\ clock = ClockStart
    /\ mtime = ClockStart - 1
    /\ lineno = 0
    /\ allemails = <<>>
    /\ allnames = <<>>
    /\ sent = <<>>
    /\ run = [status |-> "running"]
    /\ last = NoLine
    /\ earlier = {}

\* The pair of the latest line, if the duplicate check accepted it.
LastAccepted ==
    IF last.kind = "row" /\ last.guard = "Accepted"
    THEN {<<last.keywords["email"], last.keywords["name"]>>}
    ELSE {}

\* Any configuration and either template, on a file of up to MaxLines lines.
RunInit ==
    /\ testMode \in BOOLEAN
    /\ smtpkw \in Smtpinfos
    /\ template \in Templates
    /\ fileLen \in 0..MaxLines
    /\ RunStart

\* A file of MaxRecipients lines, with and without sendhour, under the
\* template whose placeholders are all bound.
RowsInit ==
    /\ testMode \in BOOLEAN
    /\ smtpkw \in {BaseSmtpinfo, Put(BaseSmtpinfo, "sendhour", "23")}
    /\ template \in {t \in Templates : t.subject # "Hi"}
    /\ fileLen = MaxRecipients
    /\ RunStart

\* readline() finds the end of the file: line 279 returns.
EndOfFile ==
    /\ run.status = "running"
    /\ lineno = fileLen
    /\ run' = [status |-> "returned"]
    /\ last' = [kind |-> "eof"]
    /\ earlier' = earlier \cup LastAccepted
    /\ UNCHANGED <<testMode, smtpkw, template, mtime, fileLen, lineno,
                   allemails, allnames, sent, clock>>

\* readline() finds a line that strips to nothing: line 279 returns as well,
\* whatever follows it in the file (following: the data rows that do).
BlankLine ==
    /\ run.status = "running"
    /\ lineno < fileLen
    /\ \E line \in BlankLines, following \in 0..(fileLen - lineno - 1) :
         /\ Strip(line) = ""
         /\ last' = [kind |-> "blank", line |-> line, following |-> following]
    /\ lineno' = lineno + 1
    /\ earlier' = earlier \cup LastAccepted
    /\ run' = [status |-> "returned"]
    /\ UNCHANGED <<testMode, smtpkw, template, mtime, fileLen, allemails,
                   allnames, sent, clock>>

\* Lines 281-282
CommentLine ==
    /\ run.status = "running"
    /\ lineno < fileLen
    /\ \E line \in CommentLines :
         /\ Strip(line) # "" /\ StartsWith(Strip(line), "#")
         /\ last' = [kind |-> "comment", line |-> line]
    /\ lineno' = lineno + 1
    /\ earlier' = earlier \cup LastAccepted
    /\ UNCHANGED <<testMode, smtpkw, template, mtime, fileLen, allemails,
                   allnames, sent, run, clock>>

\* What reading the data line may lead to: process_row under every choice of
\* the environment, the hours adv that pass between the clock reads of
\* should_send_now and whether the SMTP session delivers. A choice is drawn
\* only where the row gets to use it.
RowOutcomes(line) ==
    LET row(adv, delivered) ==
            process_row(line, Header, testMode, smtpkw, template, mtime,
                        allemails, allnames, clock, adv, delivered)
        prompt == row(0, TRUE)
        advs == IF prompt.outcome \in {"Deferred", "Sent"}
                    /\ ReadsWeekday(prompt.keywords, clock)
                THEN 0..MaxAdvance ELSE {0}
        delivering == {IF adv = 0 THEN prompt ELSE row(adv, TRUE) : adv \in advs}
    IN  delivering \cup {row(r.clock - clock, FALSE) :
                            r \in {d \in delivering : d.sent # <<>>}}

\* Lines 283-289, the action included
DataRow ==
    /\ run.status = "running"
    /\ lineno < fileLen
    /\ \E line \in DataLines :
         /\ Strip(line) # "" /\ ~StartsWith(Strip(line), "#")
         /\ \E r \in RowOutcomes(line) :
                /\ allemails' = r.allemails
                /\ allnames' = r.allnames
                /\ sent' = sent \o r.sent
                /\ clock' = r.clock
                /\ run' = IF r.raised THEN [status |-> "raised", error |-> r.outcome]
                          ELSE run
                /\ last' = [kind |-> "row", line |-> line, outcome |-> r.outcome,
                            guard |-> r.guard, nsubst |-> r.nsubst,
                            keywords |-> r.keywords]
    /\ lineno' = lineno + 1
    /\ earlier' = earlier \cup LastAccepted
    /\ UNCHANGED <<testMode, smtpkw, template, mtime, fileLen>>

\* An hour passes between two lines.
Tick ==
    /\ run.status = "running"
    /\ clock < ClockStart + MaxTicks
    /\ clock' = clock + 1
    /\ UNCHANGED runVars

RunIdle ==
    /\ testMode = FALSE
    /\ smtpkw = <<>>
    /\ template = [subject |-> "", body |-> ""]
    /\ mtime = 0
    /\ fileLen = 0
    /\ lineno = 0
    /\ allemails = <<>>
    /\ allnames = <<>>
    /\ sent = <<>>
    /\ run = [status |-> "idle"]
    /\ last = NoLine
    /\ earlier = {}

-----------------------------------------------------------------------------
(* One call of format_and_send_email on a drawn recipient *)

\* Columns a recipient table may have besides email, name and timezone, each
\* with the value the row gives it.
RowColumns ==
    [k \in {"firstname", "Date", "Today", "Year", "Organization", "login"} |->
        CASE k = "firstname" -> "Ally"
          [] k = "Date" -> "row date"
          [] k = "Today" -> "row today"
          [] k = "Year" -> "row year"
          [] k = "Organization" -> "RowWorks"
          [] k = "login" -> "row login"]

RecipientRecords ==
    LET base == {[k \in {"email", "name", "timezone"} |->
                     CASE k = "email" -> e [] k = "name" -> "Al B" [] k = "timezone" -> z] :
                 e \in {"a@x", "bob"}, z \in {"UTC", "Japan"}}
    IN  {[k \in DOMAIN b \cup D |-> IF k \in D THEN RowColumns[k] ELSE b[k]] :
            b \in base, D \in SUBSET DOMAIN RowColumns}

\* The configuration with every header key, keys the resolver computes,
\* a reserved key more and a key of its own.
FullSmtpinfo ==
    [k \in DOMAIN BaseSmtpinfo
           \cup {"Message-ID", "Date", "Today", "firstname", "htmlbody", "Importance"} |->
        CASE k = "Message-ID" -> "<1@x>"
          [] k = "Date" -> "Fri, 11 Sep 2015"
          [] k = "Today" -> "cfg today"
          [] k = "firstname" -> "Friend"
          [] k = "htmlbody" -> "email.html"
          [] k = "Importance" -> "high"
          [] OTHER -> BaseSmtpinfo[k]]

CallSmtpinfos ==
    {BaseSmtpinfo, FullSmtpinfo}
        \cup {Put(c, "sendhour", "23") : c \in {BaseSmtpinfo, FullSmtpinfo}}

CallInit ==
    /\ testMode \in BOOLEAN
    /\ smtpkw \in CallSmtpinfos
    /\ template \in Templates
    /\ \E keys \in RecipientRecords : last = [kind |-> "record", keys |-> keys]
    /\ clock = ClockStart
    /\ mtime = ClockStart - 1
    /\ fileLen = 0
    /\ lineno = 0
    /\ allemails = <<>>
    /\ allnames = <<>>
    /\ sent = <<>>
    /\ run = [status |-> "calling"]
    /\ earlier = {}

\* format_and_send_email(plaintext, subject, smtpkw, ourkw, flags), as the
\* action of the run calls it at line 307 or line 340.
FormatAndSend ==
    /\ run.status = "calling"
    /\ \E adv \in 0..MaxAdvance, delivered \in BOOLEAN :
         \E r \in {format_and_send_email(template.body, template.subject, smtpkw,
                                         last.keys, testMode, allemails, allnames,
                                         clock, adv, delivered)} :
            /\ allemails' = r.allemails
            /\ allnames' = r.allnames
            /\ sent' = sent \o r.sent
            /\ clock' = r.clock
            /\ run' = IF r.raised THEN [status |-> "raised", error |-> r.outcome]
                      ELSE [status |-> "returned"]
            /\ last' = [kind |-> "call", keys |-> last.keys, outcome |-> r.outcome,
                        guard |-> r.guard, nsubst |-> r.nsubst,
                        keywords |-> r.keywords]
    /\ UNCHANGED <<testMode, smtpkw, template, mtime, fileLen, lineno, earlier>>

-----------------------------------------------------------------------------

vars == <<runVars, clock, subVars, ssnVars>>

Next ==
    \/ EndOfFile /\ UNCHANGED <<subVars, ssnVars>>
    \/ BlankLine /\ UNCHANGED <<subVars, ssnVars>>
    \/ CommentLine /\ UNCHANGED <<subVars, ssnVars>>
    \/ DataRow /\ UNCHANGED <<subVars, ssnVars>>
    \/ Tick /\ UNCHANGED <<subVars, ssnVars>>

Init == RunInit /\ SubstIdle /\ SchedIdle

Spec == Init /\ [][Next]_vars

InitRows == RowsInit /\ SubstIdle /\ SchedIdle

RowsSpec == InitRows /\ [][Next]_vars

CallNext == FormatAndSend /\ UNCHANGED <<subVars, ssnVars>>

InitCall == CallInit /\ SubstIdle /\ SchedIdle

CallSpec == InitCall /\ [][CallNext]_vars

SubstNext == SubstituteText /\ UNCHANGED <<runVars, clock, ssnVars>>

InitSubst == SubstInit /\ RunIdle /\ clock = 0 /\ SchedIdle

SubstSpec == InitSubst /\ [][SubstNext]_vars

SchedNext == ShouldSendNow /\ UNCHANGED <<runVars, subVars>>

InitSched == SchedInit /\ RunIdle /\ SubstIdle

SchedSpec == InitSched /\ [][SchedNext]_vars

-----------------------------------------------------------------------------
(* The run: what the specification says of it *)

ArityError == "Line has the wrong number of elements"
StaleError == "Message is too old"
RecipientErrors == {"Email address is invalid", "UnknownTimeZoneError",
                    "Undefined keyword", "SMTPException"}
Duplicates == {"DuplicateEmail", "DuplicateName"}

RunFailedWith(errors) == run.status = "raised" /\ run.error \in errors

\* The latest step read a data line and the duplicate check looked at it.
GuardChecked == last.kind = "row" /\ last.guard # "none"

\* C1: the pair of a line is accepted by the duplicate check if and only if
\* neither its lower-cased email nor its lower-cased name is that of a pair
\* accepted on an earlier line.
C1_AcceptedIffNewToAccepted ==
    GuardChecked =>
        ((last.guard = "Accepted") <=>
            \A p \in earlier :
                /\ Lower(p[1]) # Lower(last.keywords["email"])
                /\ Lower(p[2]) # Lower(last.keywords["name"]))

\* C2: send_an_email is called at most once for any lower-cased address and
\* at most once for any lower-cased name.
C2_OneSendPerIdentity ==
    \A i, j \in 1..Len(sent) :
        i # j => /\ Lower(sent[i].email) # Lower(sent[j].email)
                 /\ Lower(sent[i].name) # Lower(sent[j].name)

\* A line repeating an identity was rejected after a send had been made.
C2_Witness ==
    /\ GuardChecked /\ last.guard \in Duplicates
    /\ Len(sent) >= 1

\* C3: a run with the test flag never calls send_an_email.
C3_TestModeNeverSends == testMode => sent = <<>>

\* C4: the run is never ended by an error of one recipient (an address
\* without '@', an unknown time zone, an unbound placeholder, a failed
\* delivery): the rows after it are read.
C4_RecipientErrorsAreSkipped == ~RunFailedWith(RecipientErrors)

\* C5: a run that ends with the row-arity error has made no delivery.
C5_ArityErrorBeforeAnySend == RunFailedWith({ArityError}) => sent = <<>>

\* C5 as amended: the row-arity error ends the run at the malformed row;
\* that row adds no delivery and no registration to those of the rows before
\* it, and nothing is read, registered or sent after it.
C5_ArityErrorStopsTheRun ==
    [][/\ (run.status = "running" /\ RunFailedWith({ArityError})')
             => UNCHANGED <<sent, allemails, allnames>>
       /\ RunFailedWith({ArityError})
             => UNCHANGED <<sent, allemails, allnames, lineno, run>>]_vars

\* The malformed row came after a row that was sent to.
C5_Witness == RunFailedWith({ArityError}) /\ Len(sent) >= 1

TemplateTooOld ==
    /\ "maxagehours" \in DOMAIN smtpkw
    /\ clock - mtime > ParseInt(smtpkw["maxagehours"])

C7_DuplicateIsSkipped ==
    [][(lineno' = lineno + 1 /\ GuardChecked' /\ last'.guard \in Duplicates)
          => /\ last'.nsubst = 0
             /\ sent' = sent
             /\ run'.status = "running"]_vars

\* A row was rejected as a duplicate and lines are left to read.
C7_Witness ==
    /\ GuardChecked /\ last.guard \in Duplicates
    /\ run.status = "running" /\ lineno < fileLen

-----------------------------------------------------------------------------
(* should_send_now: what the specification says of it *)

\* The numbers the drawn sendhour and sendday are meant to denote.
HourMeant(sendhour) == (CHOOSE h \in SendHours : h[1] = sendhour)[2]
DayMeant(sendday) == (CHOOSE d \in SendDays : d[1] = sendday)[2]

Evaluated == ssnOut.status \in {"returned", "raised"}

HourMatches ==
    HourOf(ssnReads.hour, ssnKeywords["timezone"])
        = HourMeant(ssnKeywords["sendhour"])

DayMatches ==
    WeekdayOf(ssnReads.day, ssnKeywords["timezone"])
        = DayMeant(ssnKeywords["sendday"])

UnknownDayConfigured ==
    /\ "sendhour" \in DOMAIN ssnKeywords
    /\ "sendday" \in DOMAIN ssnKeywords
    /\ DayMeant(ssnKeywords["sendday"]) = NoDay

\* C8: without sendhour the answer is true; with sendhour alone it is true
\* exactly when the hour read in the recipient's zone is the send hour; with
\* a weekday name as sendday, in any case of letters, exactly when moreover
\* the weekday read in that zone is that day, Monday being 0.
C8_SchedulerPredicate ==
    Evaluated =>
        /\ "sendhour" \notin DOMAIN ssnKeywords
              => ssnOut = [status |-> "returned", value |-> TRUE]
        /\ ("sendhour" \in DOMAIN ssnKeywords /\ "sendday" \notin DOMAIN ssnKeywords)
              => ssnOut = [status |-> "returned", value |-> HourMatches]
        /\ (/\ "sendhour" \in DOMAIN ssnKeywords
            /\ "sendday" \in DOMAIN ssnKeywords
            /\ ~UnknownDayConfigured)
              => ssnOut = [status |-> "returned",
                           value |-> HourMatches /\ DayMatches]

\* Hour and day were configured and the answer was true.
C8_Witness ==
    /\ "sendday" \in DOMAIN ssnKeywords
    /\ ssnOut = [status |-> "returned", value |-> TRUE]

\* C9: with sendhour present and a sendday that is no weekday name,
\* should_send_now raises at any time of the clock.
C9_UnknownDayAlwaysRaises ==
    (Evaluated /\ UnknownDayConfigured)
        => ssnOut = [status |-> "raised", error |-> "Illegal sendday"]

\* C9 as amended: it raises exactly when the hour read in the recipient's
\* zone is the send hour, and answers false at any other hour.
C9_UnknownDayRaisesAtTheSendHour ==
    (Evaluated /\ UnknownDayConfigured)
        => ssnOut = IF HourMatches
                    THEN [status |-> "raised", error |-> "Illegal sendday"]
                    ELSE [status |-> "returned", value |-> FALSE]

\* An unknown sendday made the evaluation raise.
C9_Witness ==
    Evaluated /\ UnknownDayConfigured /\ ssnOut.status = "raised"

-----------------------------------------------------------------------------
(* substitute_text: what the specification says of it *)

\* The text holds '@@', one character or more that are not '@', and '@@'.
HasPlaceholder(text) ==
    \E i \in 1..Len(text), j \in 1..(Len(text) - 1) :
        /\ j >= i + 3
        /\ SubSeq(text, i, i + 1) = KWDELIM
        /\ SubSeq(text, j, j + 1) = KWDELIM
        /\ \A k \in (i + 2)..(j - 1) : Char(text, k) # "@"

BindsAll(text, keys) ==
    \A n \in 1..Len(find_keywords(text)) : find_keywords(text)[n] \in DOMAIN keys

\* C10: when the keys bind every placeholder found in the text, the text
\* returned holds no placeholder.
C10_NoPlaceholderRemains ==
    (subOut.status = "returned" /\ BindsAll(subText, subKeys))
        => ~HasPlaceholder(subOut.text)

\* Every '@@name@@' that find_keywords reports in the text, from index i on,
\* replaced where it stands by the value bound to name; the rest as it is.
RECURSIVE SimultaneousFrom(_, _, _)
SimultaneousFrom(text, keys, i) ==
    IF i > Len(text) THEN ""
    ELSE IF /\ i + 4 <= Len(text)
            /\ SubSeq(text, i, i + 1) = KWDELIM
            /\ Char(text, i + 2) # "@"
            /\ NextDelimChar(text, i + 3) + 1 <= Len(text)
            /\ SubSeq(text, NextDelimChar(text, i + 3),
                      NextDelimChar(text, i + 3) + 1) = KWDELIM
         THEN keys[SubSeq(text, i + 2, NextDelimChar(text, i + 3) - 1)]
                  \o SimultaneousFrom(text, keys, NextDelimChar(text, i + 3) + 2)
         ELSE Char(text, i) \o SimultaneousFrom(text, keys, i + 1)

\* C11: the text substitute_text returns is the simultaneous replacement of
\* every placeholder of the original text by its bound value: what is
\* inserted for one placeholder is not replaced again for another.
C11_SinglePassSubstitution ==
    (subOut.status = "returned" /\ BindsAll(subText, subKeys))
        => subOut.text = SimultaneousFrom(subText, subKeys, 1)

\* C12: substitute_text raises if and only if a placeholder found in the text
\* is not bound by the keys, be the keys empty or not; the keyword it names is
\* such a placeholder; when it does not raise it returns a text.
C12_RaisesIffUnbound ==
    subOut.status \in {"raised", "returned"} =>
        /\ (subOut.status = "raised") <=> ~BindsAll(subText, subKeys)
        /\ subOut.status = "raised" =>
               /\ subOut.keyword \notin DOMAIN subKeys
               /\ \E n \in 1..Len(find_keywords(subText)) :
                      find_keywords(subText)[n] = subOut.keyword
        /\ subOut.status = "returned" => subOut.text \in STRING

\* It raised on a placeholder that follows a bound one, the keys not empty.
C12_Witness ==
    /\ subOut.status = "raised"
    /\ find_keywords(subText)[1] \in DOMAIN subKeys

-----------------------------------------------------------------------------
(* format_and_send_email: what the specification says of its keywords *)

\* The call got as far as the keywords of lines 117-121.
Resolved ==
    /\ last.kind = "call"
    /\ last.outcome \notin Duplicates
                           \cup {"Email address is invalid", "UnknownTimeZoneError"}

\* C13: in the keywords a recipient is processed with, every key of the
\* recipient's record keeps the value the record gives it, firstname, Date,
\* Today and Year included.
C13_RecipientKeysKept ==
    Resolved => \A k \in DOMAIN last.keys : last.keywords[k] = last.keys[k]

-----------------------------------------------------------------------------
(* send_an_email: what the specification says of the message *)

HeaderKeys == {"Organization", "Message-ID", "Date", "User-Agent"}

\* C14: every message handed to the transport carries, for each of the keys
\* Organization, Message-ID, Date and User-Agent that the configuration has,
\* a header of that name with the configured value.
C14_HeadersPropagated ==
    \A i \in 1..Len(sent) :
        \A h \in HeaderKeys \cap DOMAIN smtpkw :
            /\ h \in DOMAIN sent[i].headers
            /\ sent[i].headers[h] = smtpkw[h]

-----------------------------------------------------------------------------
(* format_and_send_email: what the specification says of the order of its steps *)

\* C15: a recipient whose email holds no '@' is rejected as an invalid
\* address before the duplicate check: neither its email nor its name is
\* recorded in allemails and allnames.
C15_InvalidAddressNotRegistered ==
    (GuardChecked /\ ~Contains(last.keywords["email"], "@")) =>
        /\ last.outcome = "Email address is invalid"
        /\ Lower(last.keywords["email"]) \notin DOMAIN allemails
        /\ \A n \in DOMAIN allnames : allnames[n] # Lower(last.keywords["email"])

\* C16: a recipient is deferred only after its subject and its body have been
\* substituted: the two calls of substitute_text come before the evaluation
\* of should_send_now, so that an unbound placeholder is reported for a
\* deferred recipient too.
C16_DeferredAfterSubstitution ==
    (last.kind = "row" /\ last.outcome = "Deferred") =>
        /\ last.nsubst = 2
        /\ substitute_text(template.body, last.keywords).status = "returned"
        /\ substitute_text(Strip(template.subject), last.keywords).status = "returned"

\* C17: send_an_email is called for a recipient only if should_send_now,
\* evaluated on the recipient's merged keywords, returned true; a recipient
\* for whom it returned false is deferred: no call of send_an_email is made
\* for it and the run goes on to the next line.
C17_SendOnlyWhenDue ==
    [][(lineno' = lineno + 1 /\ last'.kind = "row") =>
          /\ sent' # sent =>
                /\ Len(sent') = Len(sent) + 1
                /\ should_send_now(last'.keywords, clock, clock')
                       = [status |-> "returned", value |-> TRUE]
          /\ last'.outcome = "Deferred" =>
                /\ should_send_now(last'.keywords, clock, clock')
                       = [status |-> "returned", value |-> FALSE]
                /\ sent' = sent
                /\ run'.status = "running"]_vars

\* A recipient was deferred and lines are left to read.
C17_Witness ==
    /\ last.kind = "row" /\ last.outcome = "Deferred"
    /\ run.status = "running" /\ lineno < fileLen

-----------------------------------------------------------------------------
(* should_send_now: what the specification says of its clock *)

\* C18: an evaluation with sendhour and sendday that returns true has found
\* both to match at one instant: there is an instant, between its first and
\* its last read of the clock, at which the hour in the recipient's zone is
\* the send hour and the weekday in that zone is the send day.
C18_DecidedOnOneInstant ==
    (/\ ssnOut = [status |-> "returned", value |-> TRUE]
     /\ "sendhour" \in DOMAIN ssnKeywords
     /\ "sendday" \in DOMAIN ssnKeywords) =>
        \E t \in ssnReads.hour..ssnReads.day :
            /\ HourOf(t, ssnKeywords["timezone"]) = HourMeant(ssnKeywords["sendhour"])
            /\ WeekdayOf(t, ssnKeywords["timezone"]) = DayMeant(ssnKeywords["sendday"])

-----------------------------------------------------------------------------
(* The duplicate check and process_csv_file: what is left as it was *)

\* C19: a row the duplicate check rejects, for its email or for its name,
\* leaves allemails and allnames as they were before the check.
C19_RejectionLeavesRegistry ==
    [][(lineno' = lineno + 1 /\ GuardChecked' /\ last'.guard \in Duplicates)
          => UNCHANGED <<allemails, allnames>>]_vars

\* C20: process_csv_file returns only at the end of the file: no data row is
\* left unread behind the line at which it returns, a blank line included.
C20_NoRowLeftUnread ==
    run.status = "returned" =>
        \/ last.kind = "eof"
        \/ last.kind = "blank" /\ last.following = 0

====
